---- MODULE Spec2Model ----
(***************************************************************************)
(* Model of the conform form library (packages/conform-dom,               *)
(* packages/conform-zod and the hooks of packages/conform-react): the       *)
(* name-path codec, the tree builder, the list command protocol, the three  *)
(* parse functions that classify a payload into a Submission, and the       *)
(* state that useForm, useFieldset and the list hooks keep.                 *)
(*                                                                          *)
(* A JavaScript string is a sequence of one-character strings, so that      *)
(* split, the bracket pattern, JSON.stringify and JSON.parse are computed    *)
(* character by character.  The modules are ES modules, hence strict-mode   *)
(* code: an assignment to a property of a primitive string throws a         *)
(* TypeError.                                                               *)
(***************************************************************************)
EXTENDS Integers, Sequences, FiniteSets, TLC

VARIABLES formData, given, submission, listName, listCommand, serialized, parsed

\* what schema.safeParse returned in the schema-validated parse and in the
\* validate function of resolve, and the custom validity that function set on
\* the fields of the form
VARIABLES validation, customValidity

\* a field name on its way through getPaths and getName
VARIABLES fieldName, fieldPaths, encodedName, decodedPaths, pathStep

\* a structured value flattened into entries and built again
VARIABLES formTree, flat, rebuilt, treeStep

\* a list, the command applied to it and what the call returned
VARIABLES listItems, listBefore, returned, listStep

\* a form rendered with useForm: the config, the fields of the form and the
\* outcome of the last submit event
VARIABLES formConfig, fieldValue, validity, touched, shown, resetPending, submitEvent

\* a list rendered with useListControl or useFieldList: the hook, its props,
\* the entries it keeps as state, Date.now() and the last event it handled
VARIABLES controlHook, controlProps, rows, clock, lastEvent

\* a fieldset rendered with useFieldset: the error of its config, the messages
\* it keeps as state, the validation message of each field, and whether the
\* form was reset and no invalid event came since
VARIABLES fieldsetConfig, errorMessage, validationMessage, sinceReset

payloadVars == <<formData, given, submission, validation, customValidity>>

codec == <<listName, listCommand, serialized, parsed>>

pathCodec == <<fieldName, fieldPaths, encodedName, decodedPaths, pathStep>>

treeVars == <<formTree, flat, rebuilt, treeStep>>

listVars == <<listItems, listBefore, returned, listStep>>

formVars == <<formConfig, fieldValue, validity, touched, shown, resetPending, submitEvent>>

controlVars == <<controlHook, controlProps, rows, clock, lastEvent>>

fieldsetVars == <<fieldsetConfig, errorMessage, validationMessage, sinceReset>>

vars ==
  <<payloadVars, codec, pathCodec, treeVars, listVars, formVars, controlVars, fieldsetVars>>

\* what the steps on one group of variables leave alone
exceptPayload ==
  <<codec, pathCodec, treeVars, listVars, formVars, controlVars, fieldsetVars>>
exceptCodec ==
  <<payloadVars, pathCodec, treeVars, listVars, formVars, controlVars, fieldsetVars>>
exceptPath ==
  <<payloadVars, codec, treeVars, listVars, formVars, controlVars, fieldsetVars>>
exceptTree ==
  <<payloadVars, codec, pathCodec, listVars, formVars, controlVars, fieldsetVars>>
exceptList ==
  <<payloadVars, pathCodec, treeVars, formVars, controlVars, fieldsetVars>>
exceptForm ==
  <<payloadVars, codec, pathCodec, treeVars, listVars, controlVars, fieldsetVars>>
exceptControl ==
  <<payloadVars, codec, pathCodec, treeVars, listVars, formVars, fieldsetVars>>
exceptFieldset ==
  <<payloadVars, codec, pathCodec, treeVars, listVars, formVars, controlVars>>

---------------------------------------------------------------------------
(* Characters and strings *)

Digit == {"0", "1", "2", "3", "4", "5", "6", "7", "8", "9"}

Letter ==
  {"a", "b", "c", "d", "e", "f", "g", "h", "i", "j", "k", "l", "m", "n", "o", "p", "q",
   "r", "s", "t", "u", "v", "w", "x", "y", "z",
   "A", "B", "C", "D", "E", "F", "G", "H", "I", "J", "K", "L", "M", "N", "O", "P", "Q",
   "R", "S", "T", "U", "V", "W", "X", "Y", "Z"}

\* \w of the pattern in getPaths
WordChar == Letter \cup Digit \cup {"_"}

DigitVal(c) ==
  CASE c = "0" -> 0 [] c = "1" -> 1 [] c = "2" -> 2 [] c = "3" -> 3 [] c = "4" -> 4
    [] c = "5" -> 5 [] c = "6" -> 6 [] c = "7" -> 7 [] c = "8" -> 8 [] c = "9" -> 9

DigitChar(d) ==
  CASE d = 0 -> "0" [] d = 1 -> "1" [] d = 2 -> "2" [] d = 3 -> "3" [] d = 4 -> "4"
    [] d = 5 -> "5" [] d = 6 -> "6" [] d = 7 -> "7" [] d = 8 -> "8" [] d = 9 -> "9"

IsDigits(s) == Len(s) > 0 /\ \A i \in 1..Len(s) : s[i] \in Digit

\* Number(s) for a string of decimal digits
RECURSIVE StrToNat(_)
StrToNat(s) ==
  IF s = <<>> THEN 0
  ELSE 10 * StrToNat(SubSeq(s, 1, Len(s) - 1)) + DigitVal(s[Len(s)])

\* String(n) for a non-negative integer
RECURSIVE NatToStr(_)
NatToStr(n) ==
  IF n < 10 THEN <<DigitChar(n)>>
  ELSE NatToStr(n \div 10) \o <<DigitChar(n % 10)>>

\* a string that is the canonical decimal form of an array index
IsIndexString(s) == IsDigits(s) /\ (Len(s) = 1 \/ s[1] # "0")

StartsWith(s, sep) == Len(s) >= Len(sep) /\ SubSeq(s, 1, Len(sep)) = sep

\* String.prototype.split with a non-empty separator
RECURSIVE SplitFrom(_, _, _)
SplitFrom(s, sep, acc) ==
  IF s = <<>> THEN <<acc>>
  ELSE IF StartsWith(s, sep) THEN <<acc>> \o SplitFrom(SubSeq(s, Len(sep) + 1, Len(s)), sep, <<>>)
  ELSE SplitFrom(Tail(s), sep, Append(acc, Head(s)))

split(s, sep) == SplitFrom(s, sep, <<>>)

\* Array.prototype.join
RECURSIVE join(_, _)
join(parts, sep) ==
  IF parts = <<>> THEN <<>>
  ELSE IF Len(parts) = 1 THEN parts[1]
  ELSE parts[1] \o sep \o join(Tail(parts), sep)

---------------------------------------------------------------------------
(* Path codec *)

\* a step of a path: a string key or a number
Key(s) == [num |-> FALSE, key |-> s, idx |-> 0]
Idx(n) == [num |-> TRUE, key |-> <<>>, idx |-> n]

\* the positions of `[` where /(\w+)\[(\d+)\]/ can match inside a segment
BracketMatches(seg) ==
  {j \in 2..Len(seg) :
     /\ seg[j] = "["
     /\ seg[j - 1] \in WordChar
     /\ \E k \in (j + 2)..Len(seg) :
          /\ seg[k] = "]"
          /\ \A m \in (j + 1)..(k - 1) : seg[m] \in Digit}

Min(S) == CHOOSE x \in S : \A y \in S : x <= y

\* pattern.exec(key): the leftmost match, \w+ and \d+ greedy
SegmentSteps(seg) ==
  IF BracketMatches(seg) = {} THEN <<Key(seg)>>
  ELSE
    LET j == Min(BracketMatches(seg))
        i == Min({a \in 1..(j - 1) : \A m \in a..(j - 1) : seg[m] \in WordChar})
        k == Min({b \in (j + 1)..Len(seg) : seg[b] = "]"})
    IN <<Key(SubSeq(seg, i, j - 1)), Idx(StrToNat(SubSeq(seg, j + 1, k - 1)))>>

RECURSIVE FlatMapSegments(_)
FlatMapSegments(segs) ==
  IF segs = <<>> THEN <<>> ELSE SegmentSteps(Head(segs)) \o FlatMapSegments(Tail(segs))

getPaths(name) ==
  IF name = <<>> THEN <<>> ELSE FlatMapSegments(split(name, <<".">>))

StepString(p) == IF p.num THEN NatToStr(p.idx) ELSE p.key

RECURSIVE getNameFrom(_, _)
getNameFrom(name, paths) ==
  IF paths = <<>> THEN name
  ELSE
    LET path == Head(paths)
        next ==
          IF name = <<>> \/ (~path.num /\ path.key = <<>>) THEN name \o StepString(path)
          ELSE IF path.num THEN name \o <<"[">> \o NatToStr(path.idx) \o <<"]">>
          ELSE name \o <<".">> \o path.key
    IN getNameFrom(next, Tail(paths))

getName(paths) == getNameFrom(<<>>, paths)

---------------------------------------------------------------------------
(* JavaScript values: strings, numbers, undefined, plain objects (members in   *)
(* insertion order) and arrays (elements, holes, and members set by a string   *)
(* key).  Every value has the same five fields.                              *)

Str(s) == [t |-> "str", s |-> s, n |-> 0, el |-> <<>>, kv |-> <<>>]
Num(n) == [t |-> "num", s |-> <<>>, n |-> n, el |-> <<>>, kv |-> <<>>]
Undef == [t |-> "undef", s |-> <<>>, n |-> 0, el |-> <<>>, kv |-> <<>>]
Hole == [t |-> "hole", s |-> <<>>, n |-> 0, el |-> <<>>, kv |-> <<>>]
Null == [t |-> "null", s |-> <<>>, n |-> 0, el |-> <<>>, kv |-> <<>>]
Obj(kv) == [t |-> "obj", s |-> <<>>, n |-> 0, el |-> <<>>, kv |-> kv]
Arr(el, kv) == [t |-> "arr", s |-> <<>>, n |-> 0, el |-> el, kv |-> kv]

EmptyObj == Obj(<<>>)
EmptyArr == Arr(<<>>, <<>>)

\* v == null (null or undefined): the values `??` replaces
IsNullish(v) == v.t \in {"undef", "hole", "null"}

\* ToBoolean
Truthy(v) ==
  CASE v.t = "str" -> v.s # <<>>
    [] v.t = "num" -> v.n # 0
    [] v.t \in {"obj", "arr"} -> TRUE
    [] OTHER -> FALSE

HasKey(kv, k) == \E i \in 1..Len(kv) : kv[i].k = k

Lookup(kv, k) ==
  IF HasKey(kv, k) THEN kv[CHOOSE i \in 1..Len(kv) : kv[i].k = k].v ELSE Undef

Store(kv, k, v) ==
  IF HasKey(kv, k)
  THEN [i \in 1..Len(kv) |-> IF kv[i].k = k THEN [k |-> k, v |-> v] ELSE kv[i]]
  ELSE Append(kv, [k |-> k, v |-> v])

\* a step used as a property key of an array is an index when it is a number
\* or the canonical decimal string of one
IsIndexStep(p) == p.num \/ IsIndexString(p.key)
IndexOf(p) == IF p.num THEN p.idx ELSE StrToNat(p.key)

\* container[key]
GetProp(c, p) ==
  CASE c.t = "obj" -> Lookup(c.kv, StepString(p))
    [] c.t = "arr" ->
         IF IsIndexStep(p)
         THEN IF IndexOf(p) < Len(c.el) /\ c.el[IndexOf(p) + 1].t # "hole"
              THEN c.el[IndexOf(p) + 1] ELSE Undef
         ELSE Lookup(c.kv, StepString(p))
    [] c.t = "str" ->
         IF IsIndexStep(p) /\ IndexOf(p) < Len(c.s)
         THEN Str(<<c.s[IndexOf(p) + 1]>>) ELSE Undef
    [] OTHER -> Undef

\* container[key] = v in strict mode: [ok |-> FALSE] is the TypeError thrown
\* for a primitive container
SetProp(c, p, v) ==
  CASE c.t = "obj" -> [ok |-> TRUE, v |-> Obj(Store(c.kv, StepString(p), v))]
    [] c.t = "arr" ->
         IF IsIndexStep(p)
         THEN LET i == IndexOf(p) + 1
                  n == IF i > Len(c.el) THEN i ELSE Len(c.el)
              IN [ok |-> TRUE,
                  v |-> Arr([m \in 1..n |->
                               IF m = i THEN v
                               ELSE IF m <= Len(c.el) THEN c.el[m] ELSE Hole], c.kv)]
         ELSE [ok |-> TRUE, v |-> Arr(c.el, Store(c.kv, StepString(p), v))]
    [] OTHER -> [ok |-> FALSE, v |-> c]

---------------------------------------------------------------------------
(* Tree builder *)

\* a builder that creates every missing container as a mapping
ContainerAsMapping(prev, next) ==
  IF ~IsNullish(prev) THEN prev ELSE EmptyObj

\* pointer[key] ?? (typeof next === 'number' ? [] : {})
Container(prev, next) ==
  IF ~IsNullish(prev) THEN prev ELSE IF next.num THEN EmptyArr ELSE EmptyObj

\* pointer[key] = child after the rest of the walk went through child, which
\* is the same object; ok is FALSE when the walk threw
Linked(pointer, key, rest) ==
  IF rest.ok THEN SetProp(pointer, key, rest.v) ELSE [ok |-> FALSE, v |-> pointer]

\* the while loop of transform for one entry, from `pointer` on: it assigns
\* pointer[key] at every step, so a primitive on the way throws
RECURSIVE TransformWalk(_, _, _)
TransformWalk(pointer, paths, value) ==
  IF paths = <<>> THEN [ok |-> TRUE, v |-> pointer]
  ELSE IF pointer.t \notin {"obj", "arr"} THEN [ok |-> FALSE, v |-> pointer]
  ELSE IF Len(paths) = 1 THEN SetProp(pointer, paths[1], value)
  ELSE Linked(pointer, paths[1],
              TransformWalk(Container(GetProp(pointer, paths[1]), paths[2]), Tail(paths), value))

\* one entry of the for loop of transform, then the entries after it
RECURSIVE TransformFrom(_, _)
TransformEntry(result, r, entries) ==
  IF r.ok THEN TransformFrom(r.v, entries) ELSE [ok |-> FALSE, v |-> result]

\* transform(entries), folded over the entries from `result` on; entries are
\* [name, value] records with string values
TransformFrom(result, entries) ==
  IF entries = <<>> THEN [ok |-> TRUE, v |-> result]
  ELSE IF entries[1].value = <<>> THEN TransformFrom(result, Tail(entries))
  ELSE TransformEntry(result,
                      TransformWalk(result, getPaths(entries[1].name), Str(entries[1].value)),
                      Tail(entries))

transform(entries) == TransformFrom(EmptyObj, entries)

\* pointer[key] = child after setValue went on through child
LinkedValue(target, key, rest) ==
  IF rest.thrown = "" THEN [thrown |-> "", v |-> SetProp(target, key, rest.v).v]
  ELSE [thrown |-> rest.thrown, v |-> target]

\* a valueFn that returns the entry as it is, the empty string included
LeafAsGiven(target, key, prev, entry) ==
  IF Truthy(prev) THEN [thrown |-> "duplicate", v |-> target]
  ELSE IF target.t \notin {"obj", "arr"} THEN [thrown |-> "type", v |-> target]
  ELSE [thrown |-> "", v |-> SetProp(target, key, Str(entry)).v]

\* the valueFn that parse hands to setValue, applied at the last step
Leaf(target, key, prev, entry) ==
  IF Truthy(prev) THEN [thrown |-> "duplicate", v |-> target]
  ELSE IF target.t \notin {"obj", "arr"} THEN [thrown |-> "type", v |-> target]
  ELSE [thrown |-> "", v |-> SetProp(target, key, IF entry # <<>> THEN Str(entry) ELSE Undef).v]

\* setValue(target, paths, valueFn) with the valueFn of parse: thrown is
\* "" when nothing is thrown, "duplicate" for the error of valueFn and
\* "type" for the TypeError of an assignment to a primitive
RECURSIVE setValue(_, _, _)
setValue(target, paths, entry) ==
  IF paths = <<>> THEN [thrown |-> "", v |-> target]
  ELSE IF Len(paths) = 1 THEN Leaf(target, paths[1], GetProp(target, paths[1]), entry)
  ELSE IF target.t \notin {"obj", "arr"} THEN [thrown |-> "type", v |-> target]
  ELSE LinkedValue(target, paths[1],
                   setValue(Container(GetProp(target, paths[1]), paths[2]), Tail(paths), entry))

---------------------------------------------------------------------------
(* JSON.stringify and JSON.parse, for the JSON texts the model writes: objects, *)
(* arrays, strings without escapes, non-negative integers and null, without    *)
(* white space.                                                               *)

Quote == "\""

RECURSIVE stringify(_)
RECURSIVE StringifyMembers(_, _)
RECURSIVE StringifyElements(_)

stringify(v) ==
  CASE v.t = "str" -> <<Quote>> \o v.s \o <<Quote>>
    [] v.t = "num" -> NatToStr(v.n)
    [] v.t = "obj" -> <<"{">> \o StringifyMembers(v.kv, TRUE) \o <<"}">>
    [] v.t = "arr" -> <<"[">> \o StringifyElements(v.el) \o <<"]">>
    [] OTHER -> <<"n", "u", "l", "l">>

\* the members of an object; a member whose value is undefined is left out
StringifyMembers(kv, first) ==
  IF kv = <<>> THEN <<>>
  ELSE IF kv[1].v.t = "undef" THEN StringifyMembers(Tail(kv), first)
  ELSE (IF first THEN <<>> ELSE <<",">>)
         \o <<Quote>> \o kv[1].k \o <<Quote, ":">> \o stringify(kv[1].v)
         \o StringifyMembers(Tail(kv), FALSE)

StringifyElements(el) ==
  IF el = <<>> THEN <<>>
  ELSE stringify(el[1]) \o (IF Len(el) > 1 THEN <<",">> ELSE <<>>) \o StringifyElements(Tail(el))

JsonFail == [ok |-> FALSE, v |-> Undef, rest |-> <<>>]

\* the length of the longest prefix of s made of characters of S
RECURSIVE RunLength(_, _)
RunLength(s, S) == IF s # <<>> /\ Head(s) \in S THEN 1 + RunLength(Tail(s), S) ELSE 0

\* the number of characters of s before the first c
RECURSIVE RunUntil(_, _)
RunUntil(s, c) == IF s # <<>> /\ Head(s) # c THEN 1 + RunUntil(Tail(s), c) ELSE 0

RECURSIVE ParseValue(_)
RECURSIVE ParseMembers(_, _)
RECURSIVE ParseElements(_, _)

\* one JSON value at the head of s: [ok, v, rest]
ParseValue(s) ==
  IF s = <<>> THEN JsonFail
  ELSE IF s[1] = Quote THEN
    LET n == RunUntil(Tail(s), Quote)
    IN IF Len(s) >= n + 2 /\ s[n + 2] = Quote
       THEN [ok |-> TRUE, v |-> Str(SubSeq(s, 2, n + 1)), rest |-> SubSeq(s, n + 3, Len(s))]
       ELSE JsonFail
  ELSE IF s[1] = "0" THEN [ok |-> TRUE, v |-> Num(0), rest |-> Tail(s)]
  ELSE IF s[1] \in Digit THEN
    LET n == RunLength(s, Digit)
    IN [ok |-> TRUE, v |-> Num(StrToNat(SubSeq(s, 1, n))), rest |-> SubSeq(s, n + 1, Len(s))]
  ELSE IF StartsWith(s, <<"n", "u", "l", "l">>) THEN
    [ok |-> TRUE, v |-> Null, rest |-> SubSeq(s, 5, Len(s))]
  ELSE IF s[1] = "{" THEN
    IF Len(s) >= 2 /\ s[2] = "}"
    THEN [ok |-> TRUE, v |-> EmptyObj, rest |-> SubSeq(s, 3, Len(s))]
    ELSE ParseMembers(Tail(s), <<>>)
  ELSE IF s[1] = "[" THEN
    IF Len(s) >= 2 /\ s[2] = "]"
    THEN [ok |-> TRUE, v |-> EmptyArr, rest |-> SubSeq(s, 3, Len(s))]
    ELSE ParseElements(Tail(s), <<>>)
  ELSE JsonFail

\* "key":value members after `{` or `,`, up to the closing `}`
ParseMembers(s, kv) ==
  LET k == ParseValue(s)
  IN IF ~k.ok \/ k.v.t # "str" \/ k.rest = <<>> \/ Head(k.rest) # ":" THEN JsonFail
     ELSE
       LET m == ParseValue(Tail(k.rest))
       IN IF ~m.ok \/ m.rest = <<>> THEN JsonFail
          ELSE IF Head(m.rest) = "}"
            THEN [ok |-> TRUE, v |-> Obj(Store(kv, k.v.s, m.v)), rest |-> Tail(m.rest)]
          ELSE IF Head(m.rest) = ","
            THEN ParseMembers(Tail(m.rest), Store(kv, k.v.s, m.v))
          ELSE JsonFail

\* elements after `[` or `,`, up to the closing `]`
ParseElements(s, el) ==
  LET m == ParseValue(s)
  IN IF ~m.ok \/ m.rest = <<>> THEN JsonFail
     ELSE IF Head(m.rest) = "]"
       THEN [ok |-> TRUE, v |-> Arr(Append(el, m.v), <<>>), rest |-> Tail(m.rest)]
     ELSE IF Head(m.rest) = ","
       THEN ParseElements(Tail(m.rest), Append(el, m.v))
     ELSE JsonFail

\* JSON.parse(text): ok is FALSE for the SyntaxError
JSONparse(text) ==
  LET r == ParseValue(text)
  IN IF r.ok /\ r.rest = <<>> THEN [ok |-> TRUE, v |-> r.v] ELSE [ok |-> FALSE, v |-> Undef]

---------------------------------------------------------------------------
(* List command protocol *)

commandKey == <<"_", "_", "c", "o", "n", "f", "o", "r", "m", "_", "_">>

Sep == <<":", ":">>

prepend == <<"p", "r", "e", "p", "e", "n", "d">>
append == <<"a", "p", "p", "e", "n", "d">>
replace == <<"r", "e", "p", "l", "a", "c", "e">>
remove == <<"r", "e", "m", "o", "v", "e">>
reorder == <<"r", "e", "o", "r", "d", "e", "r">>

defaultValue == <<"d", "e", "f", "a", "u", "l", "t", "V", "a", "l", "u", "e">>
index == <<"i", "n", "d", "e", "x">>
from == <<"f", "r", "o", "m">>
to == <<"t", "o">>

\* a ListCommand is [type, payload]: type one of the five tags, payload an object
serializeListCommand(name, command) ==
  join(<<name, command.type, stringify(command.payload)>>, Sep)

\* the props of the button of getControlButtonProps(name, action, payload)
getControlButtonProps(name, action, payload) ==
  [type |-> "submit",
   name |-> commandKey,
   value |-> join(<<name, action, stringify(payload)>>, Sep),
   formNoValidate |-> TRUE]

\* payload.append(submitter.name, submitter.value): the entry a button adds to
\* the payload of the submission it triggers
ButtonEntry(submitter) == [name |-> submitter.name, value |-> submitter.value]

\* const [name, type, json] = serialized.split('::'): a part that is missing
\* is undefined
Part(parts, i) == IF i <= Len(parts) THEN [def |-> TRUE, s |-> parts[i]] ELSE [def |-> FALSE, s |-> <<>>]

\* JSON.parse(json) for a part: undefined is converted to the text
\* `undefined`, which is no JSON
ParsePart(part) == IF part.def THEN JSONparse(part.s) ELSE [ok |-> FALSE, v |-> Undef]

\* parseListCommand(serialized): ok is FALSE when JSON.parse throws
parseListCommand(text) ==
  LET parts == split(text, Sep)
      json == ParsePart(Part(parts, 3))
  IN [ok |-> json.ok, name |-> parts[1], type |-> Part(parts, 2), payload |-> json.v]

\* payload.key of a value JSON.parse gave; for null the read throws a
\* TypeError, which ApplyCommand decides before it reads
Member(payload, key) == IF payload.t = "obj" THEN Lookup(payload.kv, key) ELSE Undef

\* ToIntegerOrInfinity of a splice argument, for the values JSON.parse gives
\* (none is negative or fractional); NaN becomes 0
RECURSIVE ToInteger(_)
ToInteger(v) ==
  CASE v.t = "num" -> v.n
    [] v.t = "str" -> IF IsDigits(v.s) THEN StrToNat(v.s) ELSE 0
    [] v.t = "arr" -> IF Len(v.el) = 1 /\ ~IsNullish(v.el[1]) THEN ToInteger(v.el[1]) ELSE 0
    [] OTHER -> 0

Clamp(n, max) == IF n > max THEN max ELSE n

\* a splice that inserts the items and deletes nothing
spliceKeeping(el, start, deleteCount, items) ==
  LET s == Clamp(ToInteger(start), Len(el))
  IN [el |-> SubSeq(el, 1, s) \o items \o SubSeq(el, s + 1, Len(el)), removed |-> <<>>]

\* list.splice(start, deleteCount, ...items) on the elements of the list
splice(el, start, deleteCount, items) ==
  LET s == Clamp(ToInteger(start), Len(el))
      d == Clamp(deleteCount, Len(el) - s)
  IN [el |-> SubSeq(el, 1, s) \o items \o SubSeq(el, s + d + 1, Len(el)),
      removed |-> SubSeq(el, s + 1, s + d)]

\* a switch whose default branch pushes an undefined element before it throws
ApplyCommandPushing(list, type, payload) ==
  LET known == type.def /\ type.s \in {prepend, append, replace, remove, reorder}
  IN IF ~known THEN [thrown |-> "invalid", list |-> Arr(Append(list.el, Undef), list.kv)]
     ELSE IF payload.t = "null" THEN [thrown |-> "type", list |-> list]
     ELSE
       LET el ==
             CASE type.s = prepend -> <<Member(payload, defaultValue)>> \o list.el
               [] type.s = append -> Append(list.el, Member(payload, defaultValue))
               [] type.s = replace ->
                    splice(list.el, Member(payload, index), 1, <<Member(payload, defaultValue)>>).el
               [] type.s = remove -> splice(list.el, Member(payload, index), 1, <<>>).el
               [] type.s = reorder ->
                    LET cut == splice(list.el, Member(payload, from), 1, <<>>)
                    IN splice(cut.el, Member(payload, to), 0, cut.removed).el
       IN [thrown |-> "", list |-> Arr(el, list.kv)]

\* applyListCommand and applyControlCommand have the same switch; type is a
\* part of the split.  The list of a result that threw is the list as the
\* throw left it: every branch throws before it changes the list.  thrown: "" (the list is returned), "invalid" for the
\* default branch, "type" for the TypeError of reading a member of null.
ApplyCommand(list, type, payload) ==
  LET known == type.def /\ type.s \in {prepend, append, replace, remove, reorder}
  IN IF ~known THEN [thrown |-> "invalid", list |-> list]
     ELSE IF payload.t = "null" THEN [thrown |-> "type", list |-> list]
     ELSE
       LET el ==
             CASE type.s = prepend -> <<Member(payload, defaultValue)>> \o list.el
               [] type.s = append -> Append(list.el, Member(payload, defaultValue))
               [] type.s = replace ->
                    splice(list.el, Member(payload, index), 1, <<Member(payload, defaultValue)>>).el
               [] type.s = remove -> splice(list.el, Member(payload, index), 1, <<>>).el
               [] type.s = reorder ->
                    LET cut == splice(list.el, Member(payload, from), 1, <<>>)
                    IN splice(cut.el, Member(payload, to), 0, cut.removed).el
       IN [thrown |-> "", list |-> Arr(el, list.kv)]

applyListCommand(list, command) == ApplyCommand(list, command.type, command.payload)

applyControlCommand(list, action, payload) == ApplyCommand(list, action, payload)

---------------------------------------------------------------------------
(* Submissions *)

\* payload.get(name): the value of the first entry of that name, or null
get(payload, name) ==
  IF \E i \in 1..Len(payload) : payload[i].name = name
  THEN [def |-> TRUE, s |-> payload[Min({i \in 1..Len(payload) : payload[i].name = name})].value]
  ELSE [def |-> FALSE, s |-> <<>>]

\* payload.delete(name): every entry of that name is removed
delete(payload, name) == SelectSeq(payload, LAMBDA e : e.name # name)

\* the text of an error message is kept as one symbol; '' is the empty sequence
Message(text) == <<text>>

MsgSyntax == Message("SyntaxError of JSON.parse")
MsgType == Message("TypeError")
MsgInvalidAction == Message("Invalid action found")
MsgInvalidCommand == Message("Invalid list command")
MsgNotList == Message("The command can only be applied to a list")
MsgDuplicate == Message("Entry with the same name is not supported")

\* the walk `list = list[path]` of parse, which stops at undefined
RECURSIVE Resolve(_, _)
Resolve(list, paths) ==
  IF paths = <<>> THEN list
  ELSE LET next == GetProp(list, Head(paths))
       IN IF next.t = "undef" THEN next ELSE Resolve(next, Tail(paths))

\* the value after the list that the walk reached was mutated in place
RECURSIVE Mutated(_, _, _)
Mutated(value, paths, list) ==
  IF paths = <<>> THEN list
  ELSE SetProp(value, Head(paths), Mutated(GetProp(value, Head(paths)), Tail(paths), list)).v

Submission(by, state, value, error, data) ==
  [by |-> by, state |-> state, value |-> value, error |-> error, data |-> data]

\* no call yet, and a call that threw to its caller
NoSubmission == Submission("none", "none", Undef, Undef, Undef)
Thrown(by) == Submission(by, "thrown", Undef, Undef, Undef)

\* whether `if (command)` holds for the value payload.get returned
IsCommand(command) == command.def /\ command.s # <<>>

\* the entries left in the payload after `if (command) payload.delete(...)`
Remaining(payload) ==
  IF IsCommand(get(payload, commandKey)) THEN delete(payload, commandKey) ELSE payload

\* parse of conform-dom, built on transform: [payload, result], payload being
\* the entries left in the payload object
parse(payload) ==
  LET Rejected(value, text) ==
        Submission("parse", "rejected", value, Obj(<<[k |-> commandKey, v |-> Str(text)]>>), Undef)
      Applied(value, paths, applied) ==
        IF applied.thrown = ""
        THEN Submission("parse", "modified", Mutated(value, paths, applied.list), EmptyObj, Undef)
        ELSE Rejected(Mutated(value, paths, applied.list),
                      IF applied.thrown = "invalid" THEN MsgInvalidAction ELSE MsgType)
      Found(value, paths, list, action, json) ==
        IF list.t # "arr" THEN Rejected(value, <<>>)
        ELSE IF ~json.ok THEN Rejected(value, MsgSyntax)
        ELSE Applied(value, paths, applyControlCommand(list, action, json.v))
      Walk(value, paths, action, json) == Found(value, paths, Resolve(value, paths), action, json)
      Command(value, parts) ==
        Walk(value, getPaths(parts[1]), Part(parts, 2), ParsePart(Part(parts, 3)))
      Result(command, tree) ==
        IF ~tree.ok THEN Thrown("parse")
        ELSE IF ~IsCommand(command) THEN Submission("parse", "accepted", tree.v, EmptyObj, tree.v)
        ELSE Command(tree.v, split(command.s, Sep))
      Parsed(command, entries) == [payload |-> entries, result |-> Result(command, transform(entries))]
  IN Parsed(get(payload, commandKey), Remaining(payload))

\* the loop over payload.entries() of the parse built on setValue
RECURSIVE SetValues(_, _)
SetNext(r, entries) == IF r.thrown = "" THEN SetValues(r.v, entries) ELSE r

SetValues(value, entries) ==
  IF entries = <<>> THEN [thrown |-> "", v |-> value]
  ELSE SetNext(setValue(value, getPaths(entries[1].name), entries[1].value), Tail(entries))

message == <<"m", "e", "s", "s", "a", "g", "e">>

\* parse of conform-dom, built on setValue
parse_setValue(payload) ==
  LET Rejected(value, text) ==
        Submission("parse_setValue", "rejected", value,
                   Obj(<<[k |-> message, v |-> Str(text)]>>), Undef)
      Applied(value, paths, applied) ==
        IF applied.thrown = ""
        THEN Submission("parse_setValue", "modified", Mutated(value, paths, applied.list),
                        EmptyObj, Undef)
        ELSE Rejected(Mutated(value, paths, applied.list),
                      IF applied.thrown = "invalid" THEN MsgInvalidCommand ELSE MsgType)
      Found(value, paths, list, cmd) ==
        IF list.t # "arr" THEN Rejected(value, MsgNotList)
        ELSE Applied(value, paths, applyListCommand(list, [type |-> cmd.type, payload |-> cmd.payload]))
      Walk(value, paths, cmd) == Found(value, paths, Resolve(value, paths), cmd)
      Command(value, cmd) ==
        IF ~cmd.ok THEN Rejected(value, MsgSyntax) ELSE Walk(value, getPaths(cmd.name), cmd)
      Result(command, tree) ==
        IF tree.thrown # ""
        THEN Rejected(tree.v, IF tree.thrown = "duplicate" THEN MsgDuplicate ELSE MsgType)
        ELSE IF ~IsCommand(command)
          THEN Submission("parse_setValue", "accepted", tree.v, EmptyObj, tree.v)
        ELSE Command(tree.v, parseListCommand(command.s))
      Parsed(command, entries) ==
        [payload |-> entries, result |-> Result(command, SetValues(EmptyObj, entries))]
  IN Parsed(get(payload, commandKey), Remaining(payload))

\* { ...a, ...b } of two objects
RECURSIVE Spread(_, _)
Spread(kv, more) ==
  IF more = <<>> THEN kv ELSE Spread(Store(kv, more[1].k, more[1].v), Tail(more))

\* result.error.errors.map((e) => [getName(e.path), e.message])
IssueEntries(issues) ==
  [i \in 1..Len(issues) |-> [name |-> getName(issues[i].path), value |-> issues[i].message]]

\* parse of conform-zod; result is what schema.safeParse(submission.form.value)
\* returned: [success, issues], the issues being [path, message] records, and
\* result.data is the value itself (a schema that transforms nothing)
zod_parse(payload, result) ==
  LET Failed(sub, errors) ==
        IF ~errors.ok THEN Thrown("zod_parse")
        ELSE Submission("zod_parse", "rejected", sub.value,
                        Obj(Spread(sub.error.kv, errors.v.kv)), Undef)
      Result(sub) ==
        IF sub.state = "thrown" THEN Thrown("zod_parse")
        ELSE IF sub.state = "modified"
          THEN Submission("zod_parse", "modified", sub.value, sub.error, Undef)
        ELSE IF result.success
          THEN Submission("zod_parse", "accepted", sub.value, sub.error, sub.value)
        ELSE Failed(sub, transform(IssueEntries(result.issues)))
      Parsed(base) == [payload |-> base.payload, result |-> Result(base.result)]
  IN Parsed(parse(payload))

\* [...errors].reverse()
Reverse(errors) == [i \in 1..Len(errors) |-> errors[Len(errors) + 1 - i]]

\* Object.fromEntries(errors): a later entry of a name replaces the earlier one
fromEntries(errors) ==
  Spread(<<>>, [i \in 1..Len(errors) |-> [k |-> errors[i].name, v |-> Str(errors[i].value)]])

\* element.setCustomValidity(firstErrorByName[element.name] ?? '')
ErrorOf(firstErrorByName, element) ==
  IF IsNullish(Lookup(firstErrorByName, element.name)) THEN <<>>
  ELSE Lookup(firstErrorByName, element.name).s

\* setFormError(form, errors): the custom validity of every field element of
\* the form, in the order of form.elements
setFormErrorBy(firstErrorByName, elements) ==
  [i \in 1..Len(elements) |->
     [name |-> elements[i].name, message |-> ErrorOf(firstErrorByName, elements[i])]]

setFormError(elements, errors) == setFormErrorBy(fromEntries(Reverse(errors)), elements)

\* validate(form) of resolve of conform-zod; result is what schema.safeParse
\* returned for the tree of the fields
resolve_validate(elements, result) ==
  setFormError(elements, IF ~result.success THEN IssueEntries(result.issues) ELSE <<>>)

---------------------------------------------------------------------------
(* Inputs *)

\* the longest payload
MaxEntries == 2

ValueX == <<"x">>

\* names of ordinary fields: a, a.b, a[0], t[0], t[1], t[0].c, t.b
FieldNames ==
  {<<"a">>, <<"a", ".", "b">>, <<"a", "[", "0", "]">>, <<"t", "[", "0", "]">>,
   <<"t", "[", "1", "]">>, <<"t", "[", "0", "]", ".", "c">>, <<"t", ".", "b">>}

\* the fields that are also submitted empty
EmptyNames == {<<"a">>, <<"t", "[", "0", "]">>, <<"t", "[", "0", "]", ".", "c">>}

WithValue(v) == Obj(<<[k |-> defaultValue, v |-> v]>>)
WithValueAt(v, i) == Obj(<<[k |-> defaultValue, v |-> v], [k |-> index, v |-> Num(i)]>>)
At(i) == Obj(<<[k |-> index, v |-> Num(i)]>>)
FromTo(i, j) == Obj(<<[k |-> from, v |-> Num(i)], [k |-> to, v |-> Num(j)]>>)

\* the buttons a list control renders: the five commands on the list t, and
\* an append on a and on the empty name
ControlButtons ==
  {getControlButtonProps(<<"t">>, c[1], c[2]) :
     c \in {<<prepend, WithValue(Str(ValueX))>>, <<append, WithValue(Str(ValueX))>>,
            <<replace, WithValueAt(Str(ValueX), 0)>>, <<remove, At(0)>>, <<reorder, FromTo(1, 0)>>}}
  \cup {getControlButtonProps(n, append, WithValue(Str(ValueX))) : n \in {<<"a">>, <<>>}}

\* the entries those buttons add to a payload
Buttons == {ButtonEntry(b) : b \in ControlButtons}

\* values of the reserved field that no button renders: the empty string, one
\* part, a payload without its field, an unknown tag, a text that is no JSON
OtherCommands ==
  {<<>>,
   <<"t">>,
   join(<<<<"t">>, remove, <<"{", "}">>>>, Sep),
   join(<<<<"t">>, <<"b", "o", "g", "u", "s">>, <<"{", "}">>>>, Sep),
   join(<<<<"t">>, append, <<"{">>>>, Sep)}

Entries ==
  {[name |-> n, value |-> ValueX] : n \in FieldNames}
  \cup {[name |-> n, value |-> <<>>] : n \in EmptyNames}
  \cup Buttons
  \cup {[name |-> commandKey, value |-> v] : v \in OtherCommands}

Issue(path, text) == [path |-> path, message |-> text]

Required == Message("Required")
TooShort == Message("Too short")

NotValidated == [success |-> TRUE, issues |-> <<>>]

\* validate has not run on the form
NoValidity == [set |-> FALSE, fields |-> <<>>]

\* what schema.safeParse can return: success, or issues at a field, at the
\* root, at a list and one of its elements, and twice at one field
SafeParseResults ==
  {[success |-> TRUE, issues |-> <<>>]}
  \cup {[success |-> FALSE, issues |-> i] :
          i \in {<<Issue(<<Key(<<"a">>)>>, Required)>>,
                 <<Issue(<<>>, Required)>>,
                 <<Issue(<<Key(<<"t">>)>>, TooShort), Issue(<<Key(<<"t">>), Idx(0)>>, Required)>>,
                 <<Issue(<<Key(<<"a">>)>>, Required), Issue(<<Key(<<"a">>)>>, TooShort)>>}}

\* the names and the commands of the list controls whose wire form is decoded
ListNames == {<<"t">>, <<"t", "[", "0", "]", ".", "c">>, <<"a", ":", ":", "b">>, <<>>}

ListValues ==
  {Str(ValueX), Str(<<>>), Str(<<"x", ":", ":", "y">>), Obj(<<[k |-> <<"c">>, v |-> Str(<<>>)]>>)}

ListCommands ==
  {[type |-> ty, payload |-> WithValue(v)] : ty \in {prepend, append}, v \in ListValues}
  \cup {[type |-> replace, payload |-> WithValueAt(v, i)] : v \in ListValues, i \in 0..1}
  \cup {[type |-> remove, payload |-> At(i)] : i \in 0..1}
  \cup {[type |-> reorder, payload |-> FromTo(i, j)] : i \in 0..1, j \in 0..1}

---------------------------------------------------------------------------
(* The payload object and the calls of parse on it *)

\* no field name is being converted
NoPath ==
  /\ fieldName = <<>>
  /\ fieldPaths = <<>>
  /\ encodedName = <<>>
  /\ decodedPaths = <<>>
  /\ pathStep = "none"

\* what the call of parseListCommand gave: nothing yet, or the pair it
\* returned, or thrown when JSON.parse threw
NotParsed ==
  [done |-> FALSE, thrown |-> FALSE, name |-> <<>>, type |-> [def |-> FALSE, s |-> <<>>],
   payload |-> Undef]

Decoded(r) ==
  [done |-> TRUE, thrown |-> ~r.ok, name |-> r.name, type |-> r.type, payload |-> r.payload]

\* no payload has been filled, no command is on its way
NoPayload ==
  /\ formData = <<>>
  /\ given = <<>>
  /\ submission = NoSubmission
  /\ validation = NotValidated
  /\ customValidity = NoValidity

NoCommand ==
  /\ listName = <<>>
  /\ listCommand = [type |-> append, payload |-> EmptyObj]
  /\ serialized = <<>>
  /\ parsed = NotParsed

\* no structured value is being flattened
NoTree ==
  /\ formTree = EmptyObj
  /\ flat = <<>>
  /\ rebuilt = Undef
  /\ treeStep = "none"

\* no list is being changed
NoList ==
  /\ listItems = <<>>
  /\ listBefore = <<>>
  /\ returned = Undef
  /\ listStep = "none"

\* the fields of the form
Fields == {"title", "tag"}

\* the value of Date.now() when the list is rendered: larger than every index
Epoch == 10

\* what nativeEvent.submitter can be: nothing (a submit from the keyboard), a
\* submit button, or a button of a list control
NoSubmitter == [type |-> "none", name |-> <<>>, value |-> <<>>, formNoValidate |-> FALSE]
SubmitButton == [type |-> "submit", name |-> <<>>, value |-> <<>>, formNoValidate |-> FALSE]
Submitters == {NoSubmitter, SubmitButton} \cup ControlButtons

\* no submit event yet; payload is what a submission that proceeds sends
NoEvent ==
  [submitter |-> NoSubmitter, called |-> FALSE, prevented |-> FALSE, valid |-> TRUE,
   payload |-> <<>>]

\* no form is rendered
NoForm ==
  /\ formConfig = [noValidate |-> TRUE, initialReport |-> "onSubmit"]
  /\ fieldValue = [f \in Fields |-> <<>>]
  /\ validity = [f \in Fields |-> TRUE]
  /\ touched = [f \in Fields |-> FALSE]
  /\ shown = [f \in Fields |-> FALSE]
  /\ resetPending = FALSE
  /\ submitEvent = NoEvent

\* no list control is rendered
NoControl ==
  /\ controlHook = "none"
  /\ controlProps = [name |-> <<>>, defaultValue |-> Undef]
  /\ rows = EmptyArr
  /\ clock = Epoch
  /\ lastEvent = "none"

\* no fieldset is rendered
NoFieldset ==
  /\ fieldsetConfig = [error |-> [f \in Fields |-> Undef]]
  /\ errorMessage = [f \in Fields |-> Undef]
  /\ validationMessage = [f \in Fields |-> <<>>]
  /\ sinceReset = FALSE

NoHooks == NoControl /\ NoFieldset

Init == NoPayload /\ NoCommand /\ NoPath /\ NoTree /\ NoList /\ NoForm /\ NoHooks

\* payload.append(name, value), before the payload is handed to parse
AppendEntry ==
  /\ submission = NoSubmission
  /\ Len(formData) < MaxEntries
  /\ ~customValidity.set
  /\ \E e \in Entries : formData' = Append(formData, e)
  /\ UNCHANGED <<given, submission, validation, customValidity, exceptPayload>>

\* a call returned r: the payload object holds r.payload from then on
Returned(r) ==
  /\ formData' = r.payload
  /\ given' = formData
  /\ submission' = r.result
  /\ UNCHANGED <<customValidity, exceptPayload>>

Parse == Returned(parse(formData)) /\ validation' = NotValidated

ParseSetValue == Returned(parse_setValue(formData)) /\ validation' = NotValidated

\* the schema gives the validate function and the parse the same result,
\* both hand it the tree of the ordinary fields of the form
ZodParse ==
  \E result \in SafeParseResults :
    /\ customValidity.set => result = validation
    /\ Returned(zod_parse(formData, result)) /\ validation' = result

\* the validate function that resolve returns, called on the form whose
\* fields are the entries of the payload, before the form is submitted
ResolveValidate ==
  /\ submission = NoSubmission
  /\ ~customValidity.set
  /\ \E result \in SafeParseResults :
       /\ validation' = result
       /\ customValidity' = [set |-> TRUE, fields |-> resolve_validate(formData, result)]
  /\ UNCHANGED <<formData, given, submission, exceptPayload>>

Next == AppendEntry \/ Parse \/ ParseSetValue \/ ZodParse \/ ResolveValidate

Spec == Init /\ [][Next]_vars

---------------------------------------------------------------------------
(* A list command on its way from the button to the decoder *)

InitCommand ==
  /\ listName \in ListNames
  /\ listCommand \in ListCommands
  /\ serialized = <<>>
  /\ parsed = NotParsed
  /\ NoPayload /\ NoPath /\ NoTree /\ NoList /\ NoForm /\ NoHooks

Serialize ==
  /\ serialized = <<>>
  /\ serialized' = serializeListCommand(listName, listCommand)
  /\ UNCHANGED <<listName, listCommand, parsed, exceptCodec>>

Deserialize ==
  /\ serialized # <<>>
  /\ ~parsed.done
  /\ parsed' = Decoded(parseListCommand(serialized))
  /\ UNCHANGED <<listName, listCommand, serialized, exceptCodec>>

NextCommand == Serialize \/ Deserialize

SpecCommand == InitCommand /\ [][NextCommand]_vars

---------------------------------------------------------------------------
(* A field name on its way through getPaths, getName and getPaths again *)

\* the longest name, in segments
MaxSegments == 2

\* segments of a name: empty, a word, a word with one or two bracket suffixes,
\* an index with a leading zero, a bracket alone, and segments in which the
\* bracket is followed or preceded by other characters
Segments ==
  {<<>>,
   <<"a">>,
   <<"a", "[", "0", "]">>,
   <<"a", "[", "0", "]", "[", "1", "]">>,
   <<"a", "[", "0", "1", "]">>,
   <<"[", "0", "]">>,
   <<"a", "[", "0", "]", "b">>,
   <<"a", "[", "b", "]">>,
   <<"a", "-", "b", "[", "2", "]">>,
   <<"1", "2">>}

Names ==
  UNION {{join(segs, <<".">>) : segs \in [1..n -> Segments]} : n \in 1..MaxSegments}

\* the paths of validation issues, which getName renders without a name
\* having been split first
IssuePaths ==
  {<<>>,
   <<Idx(0)>>,
   <<Key(<<"a">>), Idx(0), Idx(1)>>,
   <<Key(<<>>), Idx(0)>>,
   <<Key(<<"a">>), Key(<<>>)>>,
   <<Key(<<"a">>), Key(<<"0">>)>>}

InitPath ==
  /\ NoPayload /\ NoCommand /\ NoTree /\ NoList /\ NoForm /\ NoHooks
  /\ encodedName = <<>>
  /\ decodedPaths = <<>>
  /\ \/ fieldName \in Names /\ fieldPaths = <<>> /\ pathStep = "name"
     \/ fieldName = <<>> /\ fieldPaths \in IssuePaths /\ pathStep = "issue"

GetPaths ==
  /\ pathStep = "name"
  /\ fieldPaths' = getPaths(fieldName)
  /\ pathStep' = "paths"
  /\ UNCHANGED <<fieldName, encodedName, decodedPaths, exceptPath>>

GetName ==
  /\ pathStep \in {"paths", "issue"}
  /\ encodedName' = getName(fieldPaths)
  /\ pathStep' = IF pathStep = "paths" THEN "encoded" ELSE "rendered"
  /\ UNCHANGED <<fieldName, fieldPaths, decodedPaths, exceptPath>>

GetPathsAgain ==
  /\ pathStep = "encoded"
  /\ decodedPaths' = getPaths(encodedName)
  /\ pathStep' = "decoded"
  /\ UNCHANGED <<fieldName, fieldPaths, encodedName, exceptPath>>

NextPath == GetPaths \/ GetName \/ GetPathsAgain

SpecPath == InitPath /\ [][NextPath]_vars

---------------------------------------------------------------------------
(* A structured value, the entries a form holding it submits, and the tree *)
(* built from them                                                         *)

\* the deepest nesting below the top mapping, and the widest container
MaxDepth == 3
MaxWidth == 2

KeyA == <<"a">>
KeyB == <<"b">>

\* scalars, sequences of one to MaxWidth equal values or of a scalar and a
\* value, mappings with the keys a, b
RECURSIVE Values(_)
Values(d) ==
  IF d = 0 THEN {Str(ValueX)}
  ELSE
    LET V == Values(d - 1)
    IN V
       \cup {Arr([i \in 1..n |-> v], <<>>) : n \in 1..MaxWidth, v \in V}
       \cup {Arr(<<v, w>>, <<>>) : v \in Values(0), w \in V}
       \cup {Obj(<<[k |-> k, v |-> v]>>) : k \in {KeyA, KeyB}, v \in V}
       \cup {Obj(<<[k |-> KeyA, v |-> v], [k |-> KeyB, v |-> w]>>) : v \in V, w \in V}

Trees == {Obj(<<[k |-> KeyA, v |-> v]>>) : v \in Values(MaxDepth - 1)}

\* the (name, value) pairs of the scalars of v below `path`, depth first, the
\* names rendered by getName
RECURSIVE Flatten(_, _)
RECURSIVE FlattenEach(_, _, _)
Flatten(v, path) ==
  IF v.t = "str" THEN <<[name |-> getName(path), value |-> v.s]>>
  ELSE FlattenEach(v, path, 1)

FlattenEach(v, path, i) ==
  IF v.t = "arr"
  THEN IF i > Len(v.el) THEN <<>>
       ELSE Flatten(v.el[i], Append(path, Idx(i - 1))) \o FlattenEach(v, path, i + 1)
  ELSE IF i > Len(v.kv) THEN <<>>
       ELSE Flatten(v.kv[i].v, Append(path, Key(v.kv[i].k))) \o FlattenEach(v, path, i + 1)

InitTree ==
  /\ NoPayload /\ NoCommand /\ NoPath /\ NoList /\ NoForm /\ NoHooks
  /\ formTree \in Trees
  /\ flat = <<>>
  /\ rebuilt = Undef
  /\ treeStep = "tree"

\* the fields of a form that holds the value, named by getName
FlattenTree ==
  /\ treeStep = "tree"
  /\ flat' = Flatten(formTree, <<>>)
  /\ treeStep' = "flat"
  /\ UNCHANGED <<formTree, rebuilt, exceptTree>>

Built(r, thrown) ==
  /\ treeStep = "flat"
  /\ rebuilt' = r.v
  /\ treeStep' = IF thrown THEN "thrown" ELSE "built"
  /\ UNCHANGED <<formTree, flat, exceptTree>>

BuildTransform == LET r == transform(flat) IN Built(r, ~r.ok)

BuildSetValue == LET r == SetValues(EmptyObj, flat) IN Built(r, r.thrown # "")

NextTree == FlattenTree \/ BuildTransform \/ BuildSetValue

SpecTree == InitTree /\ [][NextTree]_vars

---------------------------------------------------------------------------
(* A list and one command applied to it *)

\* the longest list, and the largest index a command carries
MaxLen == 3
MaxIndex == 4

Items == {Str(<<"p">>), Str(<<"q">>), Str(<<"r">>)}

Lists == UNION {[1..n -> Items] : n \in 0..MaxLen}

\* the commands a list control sends: the value x, every index up to MaxIndex
IndexedCommands ==
  {[type |-> ty, payload |-> WithValue(Str(ValueX))] : ty \in {prepend, append}}
  \cup {[type |-> replace, payload |-> WithValueAt(Str(ValueX), i)] : i \in 0..MaxIndex}
  \cup {[type |-> remove, payload |-> At(i)] : i \in 0..MaxIndex}
  \cup {[type |-> reorder, payload |-> FromTo(i, j)] : i \in 0..MaxIndex, j \in 0..MaxIndex}

InitList ==
  /\ NoPayload /\ NoPath /\ NoTree /\ NoForm /\ NoHooks
  /\ listName = <<>>
  /\ listCommand \in IndexedCommands
  /\ serialized = <<>>
  /\ parsed = NotParsed
  /\ listItems \in Lists
  /\ listBefore = listItems
  /\ returned = Undef
  /\ listStep = "list"

\* the call mutates the list in place and returns that list
Applied(r) ==
  /\ listStep = "list"
  /\ listItems' = r.list.el
  /\ returned' = r.list
  /\ listStep' = IF r.thrown = "" THEN "applied" ELSE "thrown"
  /\ UNCHANGED <<listBefore, codec, exceptList>>

ApplyListCommand ==
  Applied(applyListCommand(Arr(listItems, <<>>),
                           [type |-> [def |-> TRUE, s |-> listCommand.type],
                            payload |-> listCommand.payload]))

ApplyControlCommand ==
  Applied(applyControlCommand(Arr(listItems, <<>>), [def |-> TRUE, s |-> listCommand.type],
                              listCommand.payload))

NextList == ApplyListCommand \/ ApplyControlCommand

SpecList == InitList /\ [][NextList]_vars

---------------------------------------------------------------------------
(* A form rendered with useForm *)

\* FormConfig: noValidate and initialReport; validate is the function below
Configs ==
  [noValidate : BOOLEAN, initialReport : {"onSubmit", "onChange", "onBlur"}]

\* config.validate(form): it sets the custom validity of every field from the
\* value the field holds; the fields of the model are required
validate(values) == [f \in Fields |-> values[f] # <<>>]

\* the names of the fields in the payload
NameOf ==
  [title |-> <<"t", "i", "t", "l", "e">>, tag |-> <<"t", "a", "g">>]

\* getFormData(form, submitter): the fields of the form in the order of its
\* elements, then the entry of the submitter when it has a name
getFormData(values, submitter) ==
  LET payload == <<[name |-> NameOf["title"], value |-> values["title"]],
                   [name |-> NameOf["tag"], value |-> values["tag"]]>>
  IN IF submitter.type # "none" /\ submitter.name # <<>>
     THEN Append(payload, ButtonEntry(submitter))
     ELSE payload

\* the form after the first render and its effects: validate has run once
\* unless config.noValidate is set
InitForm ==
  /\ NoPayload /\ NoCommand /\ NoPath /\ NoTree /\ NoList /\ NoHooks
  /\ formConfig \in Configs
  /\ fieldValue = [f \in Fields |-> <<>>]
  /\ validity = IF formConfig.noValidate THEN [f \in Fields |-> TRUE] ELSE validate(fieldValue)
  /\ touched = [f \in Fields |-> FALSE]
  /\ shown = [f \in Fields |-> FALSE]
  /\ resetPending = FALSE
  /\ submitEvent = NoEvent

\* field.reportValidity() on the touched fields
ReportTouched(marks, valid) == [f \in Fields |-> IF marks[f] THEN ~valid[f] ELSE shown[f]]

\* a handleInput that reports every field of the form, touched or not
handleInputReportingAll ==
  \E f \in Fields, v \in {<<>>, ValueX} :
    /\ fieldValue[f] # v
    /\ fieldValue' = [fieldValue EXCEPT ![f] = v]
    /\ IF formConfig.noValidate
       THEN UNCHANGED <<validity, touched, shown>>
       ELSE /\ validity' = validate(fieldValue')
            /\ touched' = IF formConfig.initialReport = "onChange"
                          THEN [touched EXCEPT ![f] = TRUE] ELSE touched
            /\ shown' = [g \in Fields |-> ~validity'[g]]
    /\ UNCHANGED <<formConfig, resetPending, submitEvent, exceptForm>>

\* the user changes a field; handleInput runs when the listeners are installed
handleInput ==
  \E f \in Fields, v \in {<<>>, ValueX} :
    /\ fieldValue[f] # v
    /\ fieldValue' = [fieldValue EXCEPT ![f] = v]
    /\ IF formConfig.noValidate
       THEN UNCHANGED <<validity, touched, shown>>
       ELSE /\ validity' = validate(fieldValue')
            /\ touched' = IF formConfig.initialReport = "onChange"
                          THEN [touched EXCEPT ![f] = TRUE] ELSE touched
            /\ shown' = ReportTouched(touched', validity')
    /\ UNCHANGED <<formConfig, resetPending, submitEvent, exceptForm>>

handleFocusout ==
  \E f \in Fields :
    /\ ~formConfig.noValidate
    /\ formConfig.initialReport = "onBlur"
    /\ validity' = validate(fieldValue)
    /\ touched' = [touched EXCEPT ![f] = TRUE]
    /\ shown' = [shown EXCEPT ![f] = ~validity'[f]]
    /\ UNCHANGED <<formConfig, fieldValue, resetPending, submitEvent, exceptForm>>

\* the form is reset: the fields take their default values, handleReset
\* clears the marks and leaves validate to a timeout
handleReset ==
  /\ fieldValue' = [f \in Fields |-> <<>>]
  /\ IF formConfig.noValidate
     THEN UNCHANGED <<touched, resetPending>>
     ELSE touched' = [f \in Fields |-> FALSE] /\ resetPending' = TRUE
  /\ UNCHANGED <<formConfig, validity, shown, submitEvent, exceptForm>>

ResetTimeout ==
  /\ resetPending
  /\ resetPending' = FALSE
  /\ validity' = validate(fieldValue)
  /\ UNCHANGED <<formConfig, fieldValue, touched, shown, submitEvent, exceptForm>>

AllValid(valid) == \A f \in Fields : valid[f]

\* an onSubmit that asks reportValidity whatever the submitter
onSubmitValidating ==
  \E submitter \in Submitters :
    IF formConfig.noValidate
    THEN /\ submitEvent' = [submitter |-> submitter, called |-> TRUE, prevented |-> FALSE,
                            valid |-> AllValid(validity),
                            payload |-> getFormData(fieldValue, submitter)]
         /\ UNCHANGED <<formConfig, fieldValue, validity, touched, shown, resetPending,
                        exceptForm>>
    ELSE /\ validity' = validate(fieldValue)
         /\ touched' = [f \in Fields |-> TRUE]
         /\ IF ~AllValid(validity')
            THEN /\ shown' = [f \in Fields |-> ~validity'[f]]
                 /\ submitEvent' = [submitter |-> submitter, called |-> FALSE,
                                    prevented |-> TRUE, valid |-> FALSE, payload |-> <<>>]
            ELSE /\ shown' = [f \in Fields |-> FALSE]
                 /\ submitEvent' = [submitter |-> submitter, called |-> TRUE,
                                    prevented |-> FALSE, valid |-> AllValid(validity'),
                                    payload |-> getFormData(fieldValue, submitter)]
         /\ UNCHANGED <<formConfig, fieldValue, resetPending, exceptForm>>

\* the onSubmit of the props that useForm returns, for one submit event; a
\* submission that is not prevented sends the fields and the submitter
onSubmit ==
  \E submitter \in Submitters :
    IF formConfig.noValidate
    THEN /\ submitEvent' = [submitter |-> submitter, called |-> TRUE, prevented |-> FALSE,
                            valid |-> AllValid(validity),
                            payload |-> getFormData(fieldValue, submitter)]
         /\ UNCHANGED <<formConfig, fieldValue, validity, touched, shown, resetPending,
                        exceptForm>>
    ELSE /\ validity' = validate(fieldValue)
         /\ touched' = [f \in Fields |-> TRUE]
         /\ IF ~submitter.formNoValidate /\ ~AllValid(validity')
            THEN /\ shown' = [f \in Fields |-> ~validity'[f]]
                 /\ submitEvent' = [submitter |-> submitter, called |-> FALSE,
                                    prevented |-> TRUE, valid |-> FALSE, payload |-> <<>>]
            ELSE /\ shown' = IF ~submitter.formNoValidate
                             THEN [f \in Fields |-> FALSE] ELSE shown
                 /\ submitEvent' = [submitter |-> submitter, called |-> TRUE,
                                    prevented |-> FALSE, valid |-> AllValid(validity'),
                                    payload |-> getFormData(fieldValue, submitter)]
         /\ UNCHANGED <<formConfig, fieldValue, resetPending, exceptForm>>

NextForm == handleInput \/ handleFocusout \/ handleReset \/ ResetTimeout \/ onSubmit

SpecForm == InitForm /\ [][NextForm]_vars

---------------------------------------------------------------------------
(* A list rendered with useListControl or with useFieldList *)

\* the most rows of a list, and the milliseconds that pass while it is shown
MaxRows == 3
MaxTicks == 2

\* Object.entries(array): a pair of the index as a string and the element
ObjectEntries(items) ==
  Arr([i \in 1..Len(items) |-> Arr(<<Str(NatToStr(i - 1)), items[i]>>, <<>>)], <<>>)

\* Object.entries(props?.defaultValue ?? [undefined]): the state at the mount
MountEntries(props) ==
  ObjectEntries(IF IsNullish(props.defaultValue) THEN <<Undef>> ELSE props.defaultValue.el)

\* Object.entries(props?.defaultValue ?? []): the state the reset handler of
\* useListControl sets
ResetEntries(props) ==
  ObjectEntries(IF IsNullish(props.defaultValue) THEN <<>> ELSE props.defaultValue.el)

\* props.defaultValue?.[index]
DefaultAt(props, i) ==
  IF IsNullish(props.defaultValue) THEN Undef ELSE GetProp(props.defaultValue, Idx(i))

\* the list the hook returns: the key, the name and the default value of every
\* row, from the entries and the props
RenderList(entries, props) ==
  [i \in 1..Len(entries.el) |->
     [key |-> entries.el[i].el[1].s,
      name |-> IF props.name # <<>>
               THEN props.name \o <<"[">> \o NatToStr(i - 1) \o <<"]">> ELSE <<>>,
      defaultValue |-> IF ~IsNullish(entries.el[i].el[2]) THEN entries.el[i].el[2]
                       ELSE DefaultAt(props, i - 1)]]

\* the props of the hook: a name or none, and no default value, one value or
\* two
ControlProps ==
  [name : {<<>>, <<"t">>},
   defaultValue : {Undef, Arr(<<Str(ValueX)>>, <<>>), Arr(<<Str(ValueX), Str(ValueX)>>, <<>>)}]

\* the hook after the first render and its effect
InitControl ==
  /\ NoPayload /\ NoCommand /\ NoPath /\ NoTree /\ NoList /\ NoForm /\ NoFieldset
  /\ controlHook \in {"useListControl", "useFieldList"}
  /\ controlProps \in ControlProps
  /\ rows = MountEntries(controlProps)
  /\ clock = Epoch
  /\ lastEvent = "mount"

\* [`${Date.now()}`, defaultValue]: the entry a click makes
NewEntry(v) == Arr(<<Str(NatToStr(clock)), v>>, <<>>)

\* the onClick of a button: setEntries((entries) => applyListCommand([...entries],
\* command)), the command carrying its fields itself
Clicked(type, command) ==
  /\ rows' = ApplyCommand(rows, [def |-> TRUE, s |-> type], command).list
  /\ lastEvent' = "click"
  /\ UNCHANGED <<controlHook, controlProps, clock, exceptControl>>

ClickPrepend ==
  /\ Len(rows.el) < MaxRows
  /\ \E v \in {Undef, Str(ValueX)} : Clicked(prepend, WithValue(NewEntry(v)))

ClickAppend ==
  /\ Len(rows.el) < MaxRows
  /\ \E v \in {Undef, Str(ValueX)} : Clicked(append, WithValue(NewEntry(v)))

ClickReplace ==
  \E i \in 0..(Len(rows.el) - 1), v \in {Undef, Str(ValueX)} :
    Clicked(replace, WithValueAt(NewEntry(v), i))

ClickRemove == \E i \in 0..(Len(rows.el) - 1) : Clicked(remove, At(i))

\* the onClick of reorder calls setEntries only if (fromIndex !== toIndex)
ClickReorder ==
  \E i, j \in 0..(Len(rows.el) - 1) : i # j /\ Clicked(reorder, FromTo(i, j))

\* a millisecond passes
Tick ==
  /\ clock < Epoch + MaxTicks
  /\ clock' = clock + 1
  /\ UNCHANGED <<controlHook, controlProps, rows, lastEvent, exceptControl>>

\* a reset event on the form: the resetHandler of useListControl; useFieldList
\* installs no handler
ResetList ==
  /\ rows' = IF controlHook = "useListControl" THEN ResetEntries(controlProps) ELSE rows
  /\ lastEvent' = "reset"
  /\ UNCHANGED <<controlHook, controlProps, clock, exceptControl>>

NextControl ==
  ClickPrepend \/ ClickAppend \/ ClickReplace \/ ClickRemove \/ ClickReorder \/ Tick
    \/ ResetList

SpecControl == InitControl /\ [][NextControl]_vars

---------------------------------------------------------------------------
(* A fieldset rendered with useFieldset *)

\* the messages a field or the server reports
Messages == {Required, TooShort}

\* config.error: for every field a message of the server or nothing
FieldsetErrors == [Fields -> {Undef} \cup {Str(m) : m \in Messages}]

\* the hook after the first render: useState(config.error)
InitFieldset ==
  /\ NoPayload /\ NoCommand /\ NoPath /\ NoTree /\ NoList /\ NoForm /\ NoControl
  /\ fieldsetConfig \in [error : FieldsetErrors]
  /\ errorMessage = fieldsetConfig.error
  /\ validationMessage = [f \in Fields |-> <<>>]
  /\ sinceReset = FALSE

\* errorMessage?.[key] ?? config.error?.[key]: the error of the props the hook
\* returns for the field
FieldError(state, config, f) == IF ~IsNullish(state[f]) THEN state[f] ELSE config.error[f]

\* prev?.[key] ?? ''
PrevMessage(prev, f) == IF IsNullish(prev[f]) THEN <<>> ELSE prev[f].s

\* the updater of the input handler: every field whose message is not empty
\* and differs from its validation message takes the validation message
InputUpdate(prev, messages) ==
  [f \in Fields |->
     IF PrevMessage(prev, f) # <<>> /\ PrevMessage(prev, f) # messages[f]
     THEN Str(messages[f]) ELSE prev[f]]

\* the user changes a field, which changes its validation message, and the
\* input handler runs
fieldsetInput ==
  \E f \in Fields, m \in Messages \cup {<<>>} :
    /\ validationMessage[f] # m
    /\ validationMessage' = [validationMessage EXCEPT ![f] = m]
    /\ errorMessage' = InputUpdate(errorMessage, validationMessage')
    /\ UNCHANGED <<fieldsetConfig, sinceReset, exceptFieldset>>

\* an invalid event on a field that fails validation
invalidHandler ==
  \E f \in Fields :
    /\ validationMessage[f] # <<>>
    /\ errorMessage' = IF PrevMessage(errorMessage, f) = validationMessage[f]
                       THEN errorMessage
                       ELSE [errorMessage EXCEPT ![f] = Str(validationMessage[f])]
    /\ sinceReset' = FALSE
    /\ UNCHANGED <<fieldsetConfig, validationMessage, exceptFieldset>>

\* a reset event on the form: setErrorMessage({})
resetHandler ==
  /\ errorMessage' = [f \in Fields |-> Undef]
  /\ sinceReset' = TRUE
  /\ UNCHANGED <<fieldsetConfig, validationMessage, exceptFieldset>>

NextFieldset == fieldsetInput \/ invalidHandler \/ resetHandler

SpecFieldset == InitFieldset /\ [][NextFieldset]_vars

---------------------------------------------------------------------------
(* Properties *)

\* a parse function was called on the payload `given` and `submission` is
\* what came of it
Called == submission.by # "none"
ByBase == submission.by \in {"parse", "parse_setValue"}

HasReserved(payload) == \E i \in 1..Len(payload) : payload[i].name = commandKey

\* the reserved field of the payload given to the call, and its parts
GivenCommand == get(given, commandKey)
GivenParts == split(GivenCommand.s, Sep)

Tags == {prepend, append, replace, remove, reorder}

\* the reserved field is three parts, a known tag and a JSON text
WellFormed ==
  /\ GivenCommand.def
  /\ Len(GivenParts) = 3
  /\ GivenParts[2] \in Tags
  /\ JSONparse(GivenParts[3]).ok

\* the tree of the ordinary entries of the payload given to the call, as the
\* called function builds it
BuiltFirst ==
  IF submission.by = "parse_setValue"
  THEN [ok |-> SetValues(EmptyObj, delete(given, commandKey)).thrown = "",
        v |-> SetValues(EmptyObj, delete(given, commandKey)).v]
  ELSE transform(delete(given, commandKey))

\* the error tree holds a non-empty message under key
MessageAt(error, key) ==
  /\ error.t = "obj"
  /\ HasKey(error.kv, key)
  /\ Lookup(error.kv, key).t = "str"
  /\ Lookup(error.kv, key).s # <<>>

\* C1: every call of parse, of the parse built on setValue and of the
\* schema-validated parse returns a Submission (accepted, modified or rejected);
\* none throws to its caller
C1_ParseNeverThrows == Called => submission.state \in {"accepted", "modified", "rejected"}

\* C2: parseListCommand(serializeListCommand(name, command)) returns the name
\* and a command equal to the one serialized
C2_CommandRoundTrip ==
  parsed.done =>
    /\ ~parsed.thrown
    /\ parsed.name = listName
    /\ parsed.type = [def |-> TRUE, s |-> listCommand.type]
    /\ parsed.payload = listCommand.payload

\* C3: a payload whose reserved field holds a command is never classified
\* accepted, by any of the parse functions
C3_CommandNeverAccepted ==
  (Called /\ IsCommand(GivenCommand)) => submission.state # "accepted"

\* C4: in the base parse a command that is not three parts, whose tag is
\* unknown or whose payload is no JSON gives rejected, with a non-empty
\* message under the reserved key of the error tree
C4_MalformedCommandRejected ==
  (submission.by = "parse" /\ IsCommand(GivenCommand) /\ ~WellFormed) =>
    /\ submission.state = "rejected"
    /\ MessageAt(submission.error, commandKey)

\* the JSON payload of a well-formed command has no member `key`
Lacks(key) == ~HasKey(JSONparse(GivenParts[3]).v.kv, key)

LacksRequired ==
  /\ WellFormed
  /\ \/ GivenParts[2] \in {remove, replace} /\ Lacks(index)
     \/ GivenParts[2] = reorder /\ (Lacks(from) \/ Lacks(to))

\* C5: a command whose payload lacks a field its operation requires gives
\* rejected, and the list it names keeps its elements
C5_MissingFieldRejected ==
  (ByBase /\ LacksRequired) =>
    /\ submission.state = "rejected"
    /\ Resolve(submission.value, getPaths(GivenParts[1]))
         = Resolve(BuiltFirst.v, getPaths(GivenParts[1]))

\* C6: a well-formed command whose path does not lead to a list of the tree
\* gives rejected, with a non-empty message under the reserved key
C6_MissingTargetRejected ==
  (submission.by = "parse" /\ WellFormed /\ ~LacksRequired /\ BuiltFirst.ok
     /\ Resolve(BuiltFirst.v, getPaths(GivenParts[1])).t # "arr") =>
    /\ submission.state = "rejected"
    /\ MessageAt(submission.error, commandKey)

NameT == <<"t">>

\* the payload is entries under t[i] and one append button of the list t
AppendToList ==
  /\ Len(given) >= 2
  /\ \E i \in 1..Len(given) :
       /\ given[i] = ButtonEntry(getControlButtonProps(NameT, append, WithValue(Str(ValueX))))
       /\ \A j \in 1..Len(given) : j # i => StartsWith(given[j].name, <<"t", "[">>)

ListOf(value) == Lookup(value.kv, NameT)

\* C7: entries under t[i], whatever their values, and an append command on t
\* give modified, and t is then a list one longer than before whose last
\* element is the value of the command
C7_AppendGrowsList ==
  (submission.by = "parse" /\ AppendToList) =>
    /\ submission.state = "modified"
    /\ ListOf(submission.value).t = "arr"
    /\ Len(ListOf(submission.value).el) = Len(ListOf(BuiltFirst.v).el) + 1
    /\ ListOf(submission.value).el[Len(ListOf(submission.value).el)] = Str(ValueX)

\* C8: a payload without the reserved field gives accepted in the base parse,
\* with the data equal to the value and an empty error tree
C8_NoCommandAccepted ==
  (submission.by = "parse" /\ ~HasReserved(given)) =>
    /\ submission.state = "accepted"
    /\ submission.data = submission.value
    /\ submission.error = EmptyObj

\* C9: when the payload has an entry under the reserved field, the value of
\* the Submission has no member under the reserved key
C9_ReservedNotInValue ==
  (ByBase /\ HasReserved(given) /\ submission.state # "thrown") =>
    ~HasKey(submission.value.kv, commandKey)

\* C10: a call of parse leaves the payload as it was, and a second call of
\* the same base parse on it returns the state and the value of the first
C10_PayloadUnchanged ==
  [][Len(formData') <= Len(formData) =>
       /\ formData' = formData
       /\ (ByBase /\ submission'.by = submission.by) =>
            /\ submission'.state = submission.state
            /\ submission'.value = submission.value]_vars

---------------------------------------------------------------------------
(* Properties of the path codec *)

\* zero or more suffixes [digits]
RECURSIVE IsSuffixes(_)
IsSuffixes(s) ==
  \/ s = <<>>
  \/ /\ Head(s) = "["
     /\ \E k \in 3..Len(s) :
          /\ s[k] = "]"
          /\ IsDigits(SubSeq(s, 2, k - 1))
          /\ IsSuffixes(SubSeq(s, k + 1, Len(s)))

\* a segment made of word characters followed by bracketed integers
IsFieldSegment(seg) ==
  \E j \in 0..Len(seg) :
    /\ \A m \in 1..j : seg[m] \in WordChar
    /\ IsSuffixes(SubSeq(seg, j + 1, Len(seg)))

IsFieldName(name) ==
  \A i \in 1..Len(split(name, <<".">>)) : IsFieldSegment(split(name, <<".">>)[i])

\* the position of `[` in a segment that as a whole is word[digits], else 0
WholeBracket(seg) ==
  LET J == {j \in 2..(Len(seg) - 2) :
              /\ seg[j] = "["
              /\ seg[Len(seg)] = "]"
              /\ \A m \in 1..(j - 1) : seg[m] \in WordChar
              /\ IsDigits(SubSeq(seg, j + 1, Len(seg) - 1))}
  IN IF J = {} THEN 0 ELSE Min(J)

\* the steps the segment rule gives for one segment
RuleSteps(seg) ==
  LET j == WholeBracket(seg)
  IN IF j = 0 THEN <<Key(seg)>>
     ELSE <<Key(SubSeq(seg, 1, j - 1)), Idx(StrToNat(SubSeq(seg, j + 1, Len(seg) - 1)))>>

RECURSIVE RulePathsOf(_)
RulePathsOf(segs) ==
  IF segs = <<>> THEN <<>> ELSE RuleSteps(Head(segs)) \o RulePathsOf(Tail(segs))

RulePaths(name) == IF name = <<>> THEN <<>> ELSE RulePathsOf(split(name, <<".">>))

\* the rendering rule: the first step bare, a later index as [n], a later key
\* after a `.`, the empty key dropped only while the name is still empty
RECURSIVE RenderFrom(_, _, _)
RenderFrom(name, paths, first) ==
  IF paths = <<>> THEN name
  ELSE
    LET path == Head(paths)
        next ==
          IF first THEN StepString(path)
          ELSE IF path.num THEN name \o <<"[">> \o NatToStr(path.idx) \o <<"]">>
          ELSE IF path.key = <<>> /\ name = <<>> THEN name
          ELSE name \o <<".">> \o path.key
    IN RenderFrom(next, Tail(paths), FALSE)

Rendered(paths) == RenderFrom(<<>>, paths, TRUE)

\* C11: for the path that getPaths gives for a name of word characters, dots
\* and bracketed integers, getPaths(getName(path)) is that path again
C11_PathRoundTrip ==
  (pathStep = "decoded" /\ IsFieldName(fieldName)) => decodedPaths = fieldPaths

\* C12: getPaths gives the empty path for the empty name, two steps for a
\* segment that as a whole is word[digits] and one key step equal to the
\* whole segment for every other segment
C12_SegmentRule ==
  pathStep \in {"paths", "encoded", "decoded"} => fieldPaths = RulePaths(fieldName)

\* C13: getName renders the first step bare, each later key after a `.`, each
\* later index as [n], and drops an empty key only while the name is empty
C13_NameRendering ==
  pathStep \in {"encoded", "decoded", "rendered"} => encodedName = Rendered(fieldPaths)

\* C14: flattening a structured value depth first, naming every scalar with
\* getName and building the tree from those entries gives the value again
C14_TreeFlattenInverse == treeStep \in {"built", "thrown"} => treeStep = "built" /\ rebuilt = formTree

---------------------------------------------------------------------------
(* Properties of the structured value *)

\* the call returned a Submission
Returns == submission.state \in {"accepted", "modified", "rejected"}

\* entry i of the payload is an ordinary entry whose value is the empty string
EmptyEntry(i) == given[i].name # commandKey /\ given[i].value = <<>>

IsPrefix(p, q) == Len(p) <= Len(q) /\ SubSeq(q, 1, Len(p)) = p

\* no other entry of the payload addresses the leaf of entry i, a leaf below
\* it or a leaf on the way to it
Alone(i) ==
  \A j \in 1..Len(given) :
    j # i => /\ ~IsPrefix(getPaths(given[i].name), getPaths(given[j].name))
             /\ ~IsPrefix(getPaths(given[j].name), getPaths(given[i].name))

Absent(v) == v.t \in {"undef", "hole"}

RECURSIVE NoEmptyLeaf(_)
NoEmptyLeaf(v) ==
  /\ v # Str(<<>>)
  /\ \A i \in 1..Len(v.el) : NoEmptyLeaf(v.el[i])
  /\ \A i \in 1..Len(v.kv) : NoEmptyLeaf(v.kv[i].v)

---------------------------------------------------------------------------
(* Properties of the list commands *)

CommandIs(type) == listCommand.type = type

IndexAt(key) == Lookup(listCommand.payload.kv, key).n

\* the sequence without its element at index i (from 0)
Without(el, i) == SubSeq(el, 1, i) \o SubSeq(el, i + 2, Len(el))

\* every index the command carries is within the list as it was
InRange ==
  /\ CommandIs(replace) \/ CommandIs(remove) => IndexAt(index) < Len(listBefore)
  /\ CommandIs(reorder) => IndexAt(from) < Len(listBefore) /\ IndexAt(to) < Len(listBefore)

\* C16: with the indices in range the call returns the list it was given,
\* changed as the table of the operations says
C16_OperationTable ==
  (listStep # "list" /\ listStep # "none" /\ InRange) =>
    /\ listStep = "applied"
    /\ returned = Arr(listItems, <<>>)
    /\ CommandIs(prepend) => listItems = <<Str(ValueX)>> \o listBefore
    /\ CommandIs(append) => listItems = listBefore \o <<Str(ValueX)>>
    /\ CommandIs(replace) =>
         /\ Len(listItems) = Len(listBefore)
         /\ \A m \in 1..Len(listBefore) :
              listItems[m] = IF m = IndexAt(index) + 1 THEN Str(ValueX) ELSE listBefore[m]
    /\ CommandIs(remove) => listItems = Without(listBefore, IndexAt(index))
    /\ CommandIs(reorder) =>
         /\ Len(listItems) = Len(listBefore)
         /\ listItems[IndexAt(to) + 1] = listBefore[IndexAt(from) + 1]
         /\ Without(listItems, IndexAt(to)) = Without(listBefore, IndexAt(from))

\* the last of three different elements moved to the front
C16_Witness ==
  /\ listStep = "applied"
  /\ CommandIs(reorder) /\ IndexAt(from) = 2 /\ IndexAt(to) = 0
  /\ listBefore = <<Str(<<"p">>), Str(<<"q">>), Str(<<"r">>)>>
  /\ listItems = <<Str(<<"r">>), Str(<<"p">>), Str(<<"q">>)>>

\* C17: remove and replace with an index at or beyond the end of the list
\* leave the list as it was
C17_OutOfRangeNoOp ==
  (listStep = "applied" /\ (CommandIs(remove) \/ CommandIs(replace))
     /\ IndexAt(index) >= Len(listBefore)) =>
    listItems = listBefore

---------------------------------------------------------------------------
(* Properties of the error tree *)

\* some leaf of the tree is a non-empty message
RECURSIVE HasMessage(_)
HasMessage(v) ==
  \/ v.t = "str" /\ v.s # <<>>
  \/ \E i \in 1..Len(v.el) : HasMessage(v.el[i])
  \/ \E i \in 1..Len(v.kv) : HasMessage(v.kv[i].v)

\* C18: a Submission of parse or of the schema-validated parse has an empty
\* error tree when it is accepted or modified and an error tree with a
\* non-empty message when it is rejected
C18_ErrorTreeByState ==
  (submission.by \in {"parse", "zod_parse"} /\ Returns) =>
    /\ submission.state \in {"accepted", "modified"} => submission.error = EmptyObj
    /\ submission.state = "rejected" => HasMessage(submission.error)

\* C19: when the schema-validated parse is given validation issues, each at
\* a path of one or more steps, for a value no command modified, it returns
\* rejected and the error tree holds the message of every issue at the path
\* of the issue
C19_IssueAtItsPath ==
  (submission.by = "zod_parse" /\ ~validation.success /\ submission.state # "modified"
     /\ \A i \in 1..Len(validation.issues) : validation.issues[i].path # <<>>) =>
    /\ submission.state = "rejected"
    /\ \A i \in 1..Len(validation.issues) :
         Resolve(submission.error, validation.issues[i].path) = Str(validation.issues[i].message)

---------------------------------------------------------------------------
(* Properties of useForm *)

\* C20: when config.noValidate is not set, the onSubmit of the config is
\* called for a submit event only when every field of the form is valid
C20_SubmitOnlyWhenValid ==
  (~formConfig.noValidate /\ submitEvent.called) => submitEvent.valid

---------------------------------------------------------------------------
(* Properties of the containers of the tree *)

\* the first k steps of the path of entry i of the flattened value
PrefixOf(i, k) == SubSeq(getPaths(flat[i].name), 1, k)

\* a mapping whose member a is a sequence with one mapping that holds two
\* leaves: the shape of tasks[0].content and tasks[0].completed
TwoLeavesInOneRow ==
  Obj(<<[k |-> KeyA,
         v |-> Arr(<<Obj(<<[k |-> KeyA, v |-> Str(ValueX)],
                          [k |-> KeyB, v |-> Str(ValueX)]>>)>>, <<>>)]>>)

\* C23: in the tree built from the entries of a value, the container on the
\* way to a leaf is a sequence exactly when the step that follows it in the
\* path of the leaf is an index, and a mapping otherwise, the top being a
\* mapping; two leaves under the same row of a sequence come out as one mapping
\* in a one-element sequence
C23_ContainerByNextStep ==
  treeStep = "built" =>
    /\ rebuilt.t = "obj"
    /\ \A i \in 1..Len(flat) :
         \A k \in 1..(Len(getPaths(flat[i].name)) - 1) :
           Resolve(rebuilt, PrefixOf(i, k)).t =
             IF getPaths(flat[i].name)[k + 1].num THEN "arr" ELSE "obj"
    /\ formTree = TwoLeavesInOneRow => rebuilt = TwoLeavesInOneRow

\* the two leaves of one row were flattened to a[0].a and a[0].b and built
C23_Witness ==
  /\ treeStep = "built"
  /\ formTree = TwoLeavesInOneRow
  /\ Len(flat) = 2
  /\ Resolve(rebuilt, <<Key(KeyA)>>).t = "arr"
  /\ Resolve(rebuilt, <<Key(KeyA), Idx(0)>>).t = "obj"

\* no sequence of v carries a member under a key, and no mapping of v a member
\* under an index
RECURSIVE Unmixed(_)
Unmixed(v) ==
  /\ v.t = "arr" => v.kv = <<>>
  /\ v.t = "obj" => \A i \in 1..Len(v.kv) : ~IsIndexString(v.kv[i].k)
  /\ \A i \in 1..Len(v.el) : Unmixed(v.el[i])
  /\ \A i \in 1..Len(v.kv) : Unmixed(v.kv[i].v)

\* C24: parse and the parse built on setValue never return an accepted
\* Submission whose value has a sequence with a keyed member or a mapping with
\* an indexed member
C24_ConflictingStepsFailFast ==
  (ByBase /\ submission.state = "accepted") => Unmixed(submission.value)

\* entries i and j of the payload are ordinary entries, i before j, whose
\* names decode to the same path
SamePath(i, j) ==
  /\ i < j
  /\ given[i].name # commandKey /\ given[j].name # commandKey
  /\ getPaths(given[i].name) = getPaths(given[j].name)

\* C25: the parse built on setValue rejects every payload in which two
\* entries address the same path, with the message 'Entry with the same name
\* is not supported', and the leaf keeps what the earlier entry wrote
C25_DuplicateRejected ==
  submission.by = "parse_setValue" =>
    \A i, j \in 1..Len(given) :
      SamePath(i, j) =>
        /\ submission.state = "rejected"
        /\ MessageAt(submission.error, message)
        /\ Lookup(submission.error.kv, message) = Str(MsgDuplicate)
        /\ Resolve(submission.value, getPaths(given[i].name)) =
             IF given[i].value # <<>> THEN Str(given[i].value) ELSE Undef

\* C26: a call whose payload carries a command and that returns rejected
\* after the tree of the ordinary entries was built carries that tree as its
\* value: no element of a sequence was inserted, replaced, removed or moved
C26_RejectedCommandLeavesValue ==
  (ByBase /\ IsCommand(GivenCommand) /\ submission.state = "rejected" /\ BuiltFirst.ok) =>
    submission.value = BuiltFirst.v

\* a command with an unknown tag, or with the payload null, aimed at a list
\* that the entries hold, was rejected
C26_Witness ==
  /\ ByBase /\ IsCommand(GivenCommand) /\ submission.state = "rejected"
  /\ BuiltFirst.ok
  /\ Len(GivenParts) = 3
  /\ Resolve(BuiltFirst.v, getPaths(GivenParts[1])).t = "arr"
  /\ Len(Resolve(submission.value, getPaths(GivenParts[1])).el) > 0

---------------------------------------------------------------------------
(* Properties of the touched marks of useForm *)

\* the step changes what field f shows only if f is marked after it
ReportsOnlyTouched == \A f \in Fields : shown'[f] # shown[f] => touched'[f]

\* the rule of the marks for one step of the form: an input marks the field
\* that received it under onChange and nothing else, a focusout marks the
\* field that lost focus under onBlur, both report touched fields only, a
\* submit marks every field and a reset leaves none marked
MarksByInitialReport ==
  /\ handleInput =>
       /\ ReportsOnlyTouched
       /\ \A f \in Fields :
            touched'[f] = (touched[f] \/ (formConfig.initialReport = "onChange"
                                          /\ fieldValue'[f] # fieldValue[f]))
  /\ handleFocusout =>
       /\ ReportsOnlyTouched
       /\ formConfig.initialReport = "onBlur"
       /\ \E f \in Fields : touched' = [touched EXCEPT ![f] = TRUE]
  /\ onSubmit => \A f \in Fields : touched'[f]
  /\ handleReset => \A f \in Fields : ~touched'[f]
  /\ (formConfig.initialReport = "onSubmit" /\ submitEvent' = NoEvent) =>
       \A f \in Fields : ~touched'[f] /\ ~shown'[f]

\* C22 as stated, for every configuration of useForm
C22_TouchedByInitialReport_AnyConfig == [][MarksByInitialReport]_vars

\* C22: unless config.noValidate is set, useForm reports from its input
\* and focusout handlers only fields that are marked as touched; onChange
\* marks a field when it receives input, onBlur when it loses focus, the
\* default onSubmit marks and reports nothing before a submit event, which
\* marks every field, and a reset removes every mark
C22_TouchedByInitialReport == [][~formConfig.noValidate => MarksByInitialReport]_vars

\* under onChange one field received input twice, is marked and shows its
\* message, and the other field is not marked
C22_Witness ==
  /\ ~formConfig.noValidate
  /\ formConfig.initialReport = "onChange"
  /\ submitEvent = NoEvent
  /\ \E f, g \in Fields : touched[f] /\ shown[f] /\ ~touched[g] /\ ~shown[g]

---------------------------------------------------------------------------
(* Properties of the validate function of resolve *)

\* the issues of the schema whose path renders as the name
IssuesNamed(name) ==
  {i \in 1..Len(validation.issues) : getName(validation.issues[i].path) = name}

\* C30: when the validate function of resolve and the schema-validated parse
\* are handed the same issues for the same form, a field at whose path the
\* schema reported several issues carries the same message as its custom
\* validity and in the error tree of the rejected Submission
C30_SameMessageBothSides ==
  (customValidity.set /\ submission.by = "zod_parse" /\ submission.state = "rejected") =>
    \A i \in 1..Len(customValidity.fields) :
      Cardinality(IssuesNamed(customValidity.fields[i].name)) > 1 =>
        Resolve(submission.error, getPaths(customValidity.fields[i].name)) =
          Str(customValidity.fields[i].message)

---------------------------------------------------------------------------
(* Properties of the buttons of a list control *)

\* the reserved field of the payload that the last submit event sent
SentCommand == get(submitEvent.payload, commandKey)

---------------------------------------------------------------------------
(* Properties of the list hooks *)

\* the keys of the rows that the hook renders
RowKeys == [i \in 1..Len(rows.el) |-> RenderList(rows, controlProps)[i].key]

\* C27: the keys of the list items that useListControl and useFieldList
\* render are pairwise distinct after every sequence of clicks
C27_DistinctKeys ==
  controlHook # "none" =>
    \A i, j \in 1..Len(rows.el) : i # j => RowKeys[i] # RowKeys[j]

\* C28: after a reset event useListControl renders the rows it rendered at
\* the mount with the same props
C28_ResetShowsMountRows ==
  (controlHook = "useListControl" /\ lastEvent = "reset") =>
    RenderList(rows, controlProps) = RenderList(MountEntries(controlProps), controlProps)

---------------------------------------------------------------------------
(* Properties of useFieldset *)

\* C29: from a reset event until the next invalid event, the props that
\* useFieldset returns carry no error for any field
C29_NoErrorAfterReset ==
  sinceReset =>
    \A f \in Fields : ~Truthy(FieldError(errorMessage, fieldsetConfig, f))

====
